---- MODULE Spec2Model ----
(***************************************************************************)
(* GWAS Trait Extraction Viewer (streamlit_app.py).                        *)
(*                                                                         *)
(* The app is a Streamlit script: every user interaction reruns main()     *)
(* from the top.  One rerun draws the navigation radio, the shared         *)
(* sidebar (render_document_selector, with its Quick Stats) and then the   *)
(* selected page function.  The model has one action per page function;    *)
(* each action is the whole rerun that ends in that page, and takes as     *)
(* inputs the widget interaction that caused it and the document list it   *)
(* loads.  Spec varies the trait table, SpecDocs the document list and the *)
(* selector, SpecChat the chat input and Clear Chat History.               *)
(*                                                                         *)
(* Python strings are sequences of one-character strings, so that strip,   *)
(* upper, substring tests, str() and json.loads are computed, not assumed. *)
(***************************************************************************)
EXTENDS Integers, Sequences, FiniteSets, TLC

VARIABLES
    traits_df,        \* result of load_gwas_traits: <<>> (empty) or <<row>>
    current_page,     \* st.session_state.current_page
    quick_stats,      \* sidebar "Quick Stats" metrics of the last rerun
    traits_stats,     \* stats banner of the Extracted Traits page
    cards,            \* trait cards drawn by the Extracted Traits page
    summary,          \* Analytics "Extraction Summary" column
    sources,          \* Analytics "Extraction Sources" column
    raised,           \* exception that ended the last rerun, or "none"
    documents,        \* DOCUMENT_IDs load_documents returned to the last rerun
    selected_doc_id,  \* st.session_state.selected_doc_id
    chat_messages,    \* st.session_state.chat_messages
    chat_run,         \* what the chat input block did in the last rerun
    page_ran,         \* page function the last rerun called, or "none"
    last_event        \* widget interaction that caused the last rerun

vars == <<traits_df, current_page, quick_stats, traits_stats, cards,
          summary, sources, raised, documents, selected_doc_id,
          chat_messages, chat_run, page_ran, last_event>>

-----------------------------------------------------------------------------
(* Python str primitives *)

DQ == "\""
SQ == "'"

LowerCase == <<"a","b","c","d","e","f","g","h","i","j","k","l","m",
               "n","o","p","q","r","s","t","u","v","w","x","y","z">>
UpperCase == <<"A","B","C","D","E","F","G","H","I","J","K","L","M",
               "N","O","P","Q","R","S","T","U","V","W","X","Y","Z">>

\* one character of str.upper()
UpperChar(c) ==
    IF \E i \in 1..Len(LowerCase) : LowerCase[i] = c
    THEN UpperCase[CHOOSE i \in 1..Len(LowerCase) : LowerCase[i] = c]
    ELSE c

\* s.upper()
PyUpper(s) == [i \in 1..Len(s) |-> UpperChar(s[i])]

\* at most one leading and one trailing occurrence of ch removed
PyStripOneLayer(s, ch) ==
    LET a == IF Len(s) > 0 /\ s[1] = ch THEN 2 ELSE 1
        b == IF Len(s) >= a /\ s[Len(s)] = ch THEN Len(s) - 1 ELSE Len(s)
    IN  SubSeq(s, a, b)

\* s.strip(ch) for a one-character argument: every leading and every
\* trailing occurrence of ch is removed
PyStrip(s, ch) ==
    LET keep == {i \in 1..Len(s) : s[i] # ch}
        Min(S) == CHOOSE x \in S : \A y \in S : x <= y
        Max(S) == CHOOSE x \in S : \A y \in S : x >= y
    IN  IF keep = {} THEN <<>> ELSE SubSeq(s, Min(keep), Max(keep))

\* needle in hay
PyIn(needle, hay) ==
    \E i \in 0..(Len(hay) - Len(needle)) :
        SubSeq(hay, i + 1, i + Len(needle)) = needle

\* sep.join(parts)
RECURSIVE PyJoin(_, _)
PyJoin(sep, parts) ==
    IF parts = <<>> THEN <<>>
    ELSE IF Len(parts) = 1 THEN parts[1]
    ELSE parts[1] \o sep \o PyJoin(sep, Tail(parts))

-----------------------------------------------------------------------------
(* Values of a trait column: SQL NULL arrives as None, anything else as a  *)
(* string.                                                                 *)

None == [isnone |-> TRUE, str |-> <<>>]
Str(s) == [isnone |-> FALSE, str |-> s]

\* Python truthiness of an optional string ("if value:")
Truthy(value) == ~value.isnone /\ value.str # <<>>

\* pandas Series.get(key): None when the key is absent
SeriesGet(row, key) == IF key \in DOMAIN row THEN row[key] ELSE None

\* pandas Series[key] raises KeyError when the key is absent
HasKey(row, key) == key \in DOMAIN row


-----------------------------------------------------------------------------
(* String literals of the source *)

S_NOT_FOUND       == <<"N","O","T","_","F","O","U","N","D">>
S_NOT_FOUND_SPACE == <<"N","O","T"," ","F","O","U","N","D">>
S_Not_in_paper    == <<"N","o","t"," ","i","n"," ","p","a","p","e","r">>
S_None            == <<"N","o","n","e">>
S_NULL            == <<"N","U","L","L">>

\* the scorers' field list, written out identically at the three sites
trait_field_names ==
    <<"TRAIT", "GERMPLASM_NAME", "GENOME_VERSION", "CHROMOSOME",
      "PHYSICAL_POSITION", "GENE", "SNP_NAME", "VARIANT_ID", "VARIANT_TYPE",
      "EFFECT_SIZE", "GWAS_MODEL", "EVIDENCE_TYPE", "ALLELE", "ANNOTATION",
      "CANDIDATE_REGION">>

\* a card list that repeats the scorers' list, EVIDENCE_TYPE included
trait_fields_scored == trait_field_names

\* the card list of the Extracted Traits page (field.upper() of each entry)
trait_fields ==
    <<"TRAIT", "GERMPLASM_NAME", "GENOME_VERSION", "CHROMOSOME",
      "PHYSICAL_POSITION", "GENE", "SNP_NAME", "VARIANT_ID", "VARIANT_TYPE",
      "EFFECT_SIZE", "GWAS_MODEL", "ALLELE", "ANNOTATION",
      "CANDIDATE_REGION">>

\* the fraction n / d printed without the "* 100"
PctNoScale(n, d) == (20 * n + d) \div (2 * d)

\* f"{x:.1f}" of (n / d) * 100, in tenths of a percent.  With d = 15 the
\* quotient never lies halfway between two tenths, so rounding to nearest
\* is exact.
PctTenths(n, d) == (2000 * n + d) \div (2 * d)

-----------------------------------------------------------------------------
(* Sidebar Quick Stats (render_document_selector) *)

\* value_str = str(value).strip('"').strip("'")
StripQuotes(s) == PyStrip(PyStrip(s, DQ), SQ)

\* loop body: 1 when the field adds to actual_found
SidebarCounts(value) ==
    IF Truthy(value)
    THEN LET value_str == StripQuotes(value.str)
         IN  IF value_str # <<>> /\ ~PyIn(S_NOT_FOUND, PyUpper(value_str))
             THEN 1 ELSE 0
    ELSE 0

RECURSIVE SidebarFound(_, _)
SidebarFound(traits_row, n) ==
    IF n = 0 THEN 0
    ELSE SidebarFound(traits_row, n - 1)
         + SidebarCounts(SeriesGet(traits_row.cols, trait_field_names[n]))

NoStats == [shown |-> FALSE, actual_found |-> 0, total_traits |-> 0,
            accuracy |-> 0, not_reported |-> 0]

\* the metrics drawn under "Quick Stats"; the division is not guarded
QuickStats(df) ==
    IF df = <<>> THEN NoStats
    ELSE LET traits_row == df[1]
             actual_found == SidebarFound(traits_row, Len(trait_field_names))
             total_traits == Len(trait_field_names)
         IN  IF total_traits = 0 THEN NoStats
             ELSE [shown |-> TRUE, actual_found |-> actual_found,
                   total_traits |-> total_traits,
                   accuracy |-> PctTenths(actual_found, total_traits),
                   not_reported |-> 0]

QuickStatsRaises(df) ==
    IF df # <<>> /\ Len(trait_field_names) = 0
    THEN "ZeroDivisionError" ELSE "none"

-----------------------------------------------------------------------------
(* json.loads on the subset of JSON the payloads use: objects, arrays,     *)
(* strings without escapes, integers, true, false, null, blanks.          *)
(* A parsed value is [t, s, keys, items]: t the Python type, s the text of *)
(* a str/int/bool, keys and items the contents of a dict or list.          *)

JVal(t, s, keys, items) == [t |-> t, s |-> s, keys |-> keys, items |-> items]
JNone == JVal("NoneType", <<>>, <<>>, <<>>)
JFail == [ok |-> FALSE, val |-> JNone, next |-> 0]
JOk(v, n) == [ok |-> TRUE, val |-> v, next |-> n]

Digits == {"0","1","2","3","4","5","6","7","8","9"}

RECURSIVE SkipWs(_, _)
SkipWs(s, i) == IF i <= Len(s) /\ s[i] = " " THEN SkipWs(s, i + 1) ELSE i

\* s[i..] starts with the literal w
StartsWith(s, i, w) ==
    i + Len(w) - 1 <= Len(s) /\ SubSeq(s, i, i + Len(w) - 1) = w

\* a string literal opening at s[i] = DQ
ParseString(s, i) ==
    LET close == {j \in (i + 1)..Len(s) : s[j] = DQ}
    IN  IF close = {} THEN JFail
        ELSE LET j == CHOOSE x \in close : \A y \in close : x <= y
             IN  JOk(JVal("str", SubSeq(s, i + 1, j - 1), <<>>, <<>>), j + 1)

RECURSIVE DigitsEnd(_, _)
DigitsEnd(s, i) ==
    IF i <= Len(s) /\ s[i] \in Digits THEN DigitsEnd(s, i + 1) ELSE i

\* an integer literal: -?(0|[1-9][0-9]*)
ParseNumber(s, i) ==
    LET d == IF i <= Len(s) /\ s[i] = "-" THEN i + 1 ELSE i
    IN  IF d > Len(s) \/ s[d] \notin Digits THEN JFail
        ELSE LET e == IF s[d] = "0" THEN d + 1 ELSE DigitsEnd(s, d)
             IN  JOk(JVal("int", SubSeq(s, i, e - 1), <<>>, <<>>), e)

\* dict[k] = v: a repeated key keeps its place and takes the new value
DictSet(keys, items, k, v) ==
    IF \E n \in 1..Len(keys) : keys[n] = k
    THEN [keys |-> keys,
          items |-> [n \in 1..Len(items) |->
                        IF keys[n] = k THEN v ELSE items[n]]]
    ELSE [keys |-> Append(keys, k), items |-> Append(items, v)]

RECURSIVE ParseValue(_, _)
RECURSIVE ParseMembers(_, _, _, _)
RECURSIVE ParseElements(_, _, _)

\* the members of an object, s[i] being where a key must open
ParseMembers(s, i, keys, items) ==
    IF i > Len(s) \/ s[i] # DQ THEN JFail
    ELSE LET k == ParseString(s, i)
         IN  IF ~k.ok THEN JFail
             ELSE LET c == SkipWs(s, k.next)
                  IN  IF c > Len(s) \/ s[c] # ":" THEN JFail
                      ELSE LET v == ParseValue(s, SkipWs(s, c + 1))
                           IN  IF ~v.ok THEN JFail
                               ELSE LET d == DictSet(keys, items, k.val.s, v.val)
                                        e == SkipWs(s, v.next)
                                    IN  IF e > Len(s) THEN JFail
                                        ELSE IF s[e] = "}"
                                        THEN JOk(JVal("dict", <<>>, d.keys, d.items), e + 1)
                                        ELSE IF s[e] = ","
                                        THEN ParseMembers(s, SkipWs(s, e + 1), d.keys, d.items)
                                        ELSE JFail

\* the elements of an array, s[i] being where a value must open
ParseElements(s, i, items) ==
    LET v == ParseValue(s, i)
    IN  IF ~v.ok THEN JFail
        ELSE LET e == SkipWs(s, v.next)
             IN  IF e > Len(s) THEN JFail
                 ELSE IF s[e] = "]"
                 THEN JOk(JVal("list", <<>>, <<>>, Append(items, v.val)), e + 1)
                 ELSE IF s[e] = ","
                 THEN ParseElements(s, SkipWs(s, e + 1), Append(items, v.val))
                 ELSE JFail

ParseValue(s, i) ==
    IF i > Len(s) THEN JFail
    ELSE IF s[i] = DQ THEN ParseString(s, i)
    ELSE IF s[i] = "{"
    THEN LET j == SkipWs(s, i + 1)
         IN  IF j <= Len(s) /\ s[j] = "}"
             THEN JOk(JVal("dict", <<>>, <<>>, <<>>), j + 1)
             ELSE ParseMembers(s, j, <<>>, <<>>)
    ELSE IF s[i] = "["
    THEN LET j == SkipWs(s, i + 1)
         IN  IF j <= Len(s) /\ s[j] = "]"
             THEN JOk(JVal("list", <<>>, <<>>, <<>>), j + 1)
             ELSE ParseElements(s, j, <<>>)
    ELSE IF StartsWith(s, i, <<"n","u","l","l">>) THEN JOk(JNone, i + 4)
    ELSE IF StartsWith(s, i, <<"t","r","u","e">>)
    THEN JOk(JVal("bool", <<"T","r","u","e">>, <<>>, <<>>), i + 4)
    ELSE IF StartsWith(s, i, <<"f","a","l","s","e">>)
    THEN JOk(JVal("bool", <<"F","a","l","s","e">>, <<>>, <<>>), i + 5)
    ELSE ParseNumber(s, i)

\* json.loads(s): ok = FALSE stands for JSONDecodeError
json_loads(s) ==
    LET v == ParseValue(s, SkipWs(s, 1))
    IN  IF v.ok /\ SkipWs(s, v.next) = Len(s) + 1 THEN v ELSE JFail

\* repr() of a str without backslashes or double quotes
ReprStr(s) == IF SQ \in {s[i] : i \in 1..Len(s)}
              THEN <<DQ>> \o s \o <<DQ>> ELSE <<SQ>> \o s \o <<SQ>>

RECURSIVE PyRepr(_)
RECURSIVE ReprItems(_, _)

\* the reprs of a list's items, or of a dict's "key: value" pairs
ReprItems(v, n) ==
    IF n = 0 THEN <<>>
    ELSE Append(ReprItems(v, n - 1),
                IF v.t = "dict"
                THEN ReprStr(v.keys[n]) \o <<":", " ">> \o PyRepr(v.items[n])
                ELSE PyRepr(v.items[n]))

PyRepr(v) ==
    IF v.t = "str" THEN ReprStr(v.s)
    ELSE IF v.t = "NoneType" THEN S_None
    ELSE IF v.t = "list"
    THEN <<"[">> \o PyJoin(<<",", " ">>, ReprItems(v, Len(v.items))) \o <<"]">>
    ELSE IF v.t = "dict"
    THEN <<"{">> \o PyJoin(<<",", " ">>, ReprItems(v, Len(v.items))) \o <<"}">>
    ELSE v.s

\* str(v)
PyStr(v) == IF v.t = "str" THEN v.s ELSE PyRepr(v)

EmptyDict == JVal("dict", <<>>, <<>>, <<>>)

\* json.loads(x) without the "if x" guard
LoadsAlways(x) ==
    IF x.isnone THEN [exc |-> "TypeError", val |-> JNone]
    ELSE LET r == json_loads(x.str)
         IN  IF r.ok THEN [exc |-> "none", val |-> r.val]
             ELSE [exc |-> "JSONDecodeError", val |-> JNone]

\* json.loads(x) if x else {}: the parsed value, or the exception raised
LoadsIfTruthy(x) ==
    IF ~Truthy(x) THEN [exc |-> "none", val |-> EmptyDict]
    ELSE LET r == json_loads(x.str)
         IN  IF r.ok THEN [exc |-> "none", val |-> r.val]
             ELSE [exc |-> "JSONDecodeError", val |-> JNone]

-----------------------------------------------------------------------------
(* Extracted Traits page (page_extracted_traits) *)

\* an exact comparison after stripping double quotes only
PageIsValidExact(value) ==
    /\ Truthy(value)
    /\ LET value_str == PyStrip(value.str, DQ)
       IN  /\ value_str # <<>>
           /\ PyUpper(value_str) # S_NOT_FOUND
           /\ PyUpper(value_str) # S_NOT_FOUND_SPACE

\* a test for the spaced spelling only
PageIsValidSpaceOnly(value) ==
    /\ Truthy(value)
    /\ LET value_str == StripQuotes(value.str)
       IN  /\ value_str # <<>>
           /\ ~PyIn(S_NOT_FOUND_SPACE, PyUpper(value_str))

\* is_valid, FALSE when "if value:" skips the field
PageIsValid(value) ==
    /\ Truthy(value)
    /\ LET value_str == StripQuotes(value.str)
       IN  /\ value_str # <<>>
           /\ ~PyIn(S_NOT_FOUND, PyUpper(value_str))
           /\ ~PyIn(S_NOT_FOUND_SPACE, PyUpper(value_str))

\* a loop that starts at the second field
RECURSIVE PageFoundSkipsFirst(_, _)
PageFoundSkipsFirst(traits_row, n) ==
    IF n <= 1 THEN 0
    ELSE PageFoundSkipsFirst(traits_row, n - 1)
         + (IF PageIsValid(SeriesGet(traits_row.cols, trait_field_names[n]))
            THEN 1 ELSE 0)

RECURSIVE PageFound(_, _)
PageFound(traits_row, n) ==
    IF n = 0 THEN 0
    ELSE PageFound(traits_row, n - 1)
         + (IF PageIsValid(SeriesGet(traits_row.cols, trait_field_names[n]))
            THEN 1 ELSE 0)

\* actual_accuracy = (actual_found / total_traits) * 100 if total_traits > 0 else 0
PageAccuracy(actual_found, total_traits) ==
    IF total_traits > 0 THEN PctTenths(actual_found, total_traits) ELSE 0

\* a banner whose not-reported figure is taken from the card list
TraitsStatsFromCardList(df) ==
    IF df = <<>> \/ ~HasKey(df[1].cols, "EVIDENCE_TYPE") THEN NoStats
    ELSE LET actual_found == PageFound(df[1], Len(trait_field_names))
             total_traits == Len(trait_field_names)
         IN  [shown |-> TRUE, actual_found |-> actual_found,
              total_traits |-> total_traits,
              accuracy |-> PageAccuracy(actual_found, total_traits),
              not_reported |-> Len(trait_fields) - actual_found]

\* the stats banner; its format arguments index EVIDENCE_TYPE
TraitsStats(df) ==
    IF df = <<>> \/ ~HasKey(df[1].cols, "EVIDENCE_TYPE") THEN NoStats
    ELSE LET actual_found == PageFound(df[1], Len(trait_field_names))
             total_traits == Len(trait_field_names)
         IN  [shown |-> TRUE, actual_found |-> actual_found,
              total_traits |-> total_traits,
              accuracy |-> PageAccuracy(actual_found, total_traits),
              not_reported |-> total_traits - actual_found]

\* the cleaned value of a card: quotes are stripped only from a truthy value
CardValue(value) ==
    IF Truthy(value) THEN Str(StripQuotes(value.str)) ELSE value

\* is_missing
IsMissing(value) ==
    \/ ~Truthy(value)
    \/ value.str = S_Not_in_paper
    \/ PyIn(S_NOT_FOUND, PyUpper(value.str))
    \/ PyIn(S_NOT_FOUND_SPACE, PyUpper(value.str))
    \/ value.str = S_None
    \/ value.str = S_NULL

\* one trait card: "Not Found" with the fixed text, or "Found" with the value
Card(traits_row, i) ==
    LET value == CardValue(traits_row.cols[trait_fields[i]])
    IN  IF IsMissing(value)
        THEN [field |-> trait_fields[i], found |-> FALSE, value |-> <<>>]
        ELSE [field |-> trait_fields[i], found |-> TRUE, value |-> value.str]

\* index of the first card whose column is absent (traits_row[...] raises
\* KeyError there), or 0
FirstKeyError(traits_row) ==
    LET bad == {i \in 1..Len(trait_fields) :
                   ~HasKey(traits_row.cols, trait_fields[i])}
    IN  IF bad = {} THEN 0 ELSE CHOOSE i \in bad : \A j \in bad : i <= j

\* "citations = json.loads(...) if ... else {}" inside try: the exception
\* that leaves the try body, or "none"
CitationsTry(traits_row) ==
    IF ~HasKey(traits_row.cols, "FIELD_CITATIONS") THEN "KeyError"
    ELSE LoadsIfTruthy(traits_row.cols["FIELD_CITATIONS"]).exc

\* the bare "except:" sets citations = {} and lets nothing propagate
ExceptBare(exc) == "none"

\* the cards drawn before the page ends or raises
Cards(df) ==
    IF df = <<>> \/ ~HasKey(df[1].cols, "EVIDENCE_TYPE") THEN <<>>
    ELSE IF ExceptBare(CitationsTry(df[1])) # "none" THEN <<>>
    ELSE LET k == FirstKeyError(df[1])
             n == IF k = 0 THEN Len(trait_fields) ELSE k - 1
         IN  [i \in 1..n |-> Card(df[1], i)]

TraitsPageRaises(df) ==
    IF df = <<>> THEN "none"
    ELSE IF ~HasKey(df[1].cols, "EVIDENCE_TYPE") THEN "KeyError"
    ELSE IF ExceptBare(CitationsTry(df[1])) # "none"
    THEN ExceptBare(CitationsTry(df[1]))
    ELSE IF FirstKeyError(df[1]) # 0 THEN "KeyError"
    ELSE "none"

-----------------------------------------------------------------------------
(* Analytics Dashboard (page_analytics) *)

AnalyticsCounts(value) ==
    IF Truthy(value)
    THEN LET value_str == StripQuotes(value.str)
         IN  IF value_str # <<>> /\ ~PyIn(S_NOT_FOUND, PyUpper(value_str))
             THEN 1 ELSE 0
    ELSE 0

RECURSIVE AnalyticsExtracted(_, _)
AnalyticsExtracted(traits_row, n) ==
    IF n = 0 THEN 0
    ELSE AnalyticsExtracted(traits_row, n - 1)
         + AnalyticsCounts(SeriesGet(traits_row.cols, trait_field_names[n]))

NoSummary == [shown |-> FALSE, extracted |-> 0, not_reported |-> 0,
              accuracy |-> 0]

\* the bar chart of extracted / not_reported and the "Extraction Accuracy"
\* metric, which prints the row's EXTRACTION_ACCURACY_PCT
Summary(df) ==
    IF df = <<>> THEN NoSummary
    ELSE LET extracted == AnalyticsExtracted(df[1], Len(trait_field_names))
         IN  [shown |-> TRUE, extracted |-> extracted,
              not_reported |-> Len(trait_field_names) - extracted,
              accuracy |-> df[1].EXTRACTION_ACCURACY_PCT]

S_Phase1 == <<"P","h","a","s","e","1">>
S_Phase2 == <<"P","h","a","s","e","2">>
S_LLM    == <<"L","L","M">>

Labels == <<S_Phase1, S_Phase2, S_LLM>>

\* an if/elif chain over the labels: a value counts under its first label only
RECURSIVE CountLabelElif(_, _, _)
CountLabelElif(citations, label, n) ==
    IF n = 0 THEN 0
    ELSE CountLabelElif(citations, label, n - 1)
         + (IF /\ PyIn(label, PyStr(citations.items[n]))
               /\ \A i \in 1..Len(Labels) :
                     PyIn(Labels[i], PyStr(citations.items[n]))
                        => \E j \in 1..i : Labels[j] = label
            THEN 1 ELSE 0)

\* sum(1 for v in citations.values() if label in str(v)), over the first n
RECURSIVE CountLabel(_, _, _)
CountLabel(citations, label, n) ==
    IF n = 0 THEN 0
    ELSE CountLabel(citations, label, n - 1)
         + (IF PyIn(label, PyStr(citations.items[n])) THEN 1 ELSE 0)

\* the body of the try block: counts for Phase1, Phase2, LLM, or the
\* exception that leaves it (.values() exists on a dict only)
SourcesTry(traits_row) ==
    IF ~HasKey(traits_row.cols, "FIELD_CITATIONS")
    THEN [exc |-> "KeyError", counts |-> <<>>]
    ELSE LET c == LoadsIfTruthy(traits_row.cols["FIELD_CITATIONS"])
         IN  IF c.exc # "none" THEN [exc |-> c.exc, counts |-> <<>>]
             ELSE IF c.val.t # "dict"
             THEN [exc |-> "AttributeError", counts |-> <<>>]
             ELSE [exc |-> "none",
                   counts |-> <<CountLabel(c.val, S_Phase1, Len(c.val.items)),
                                CountLabel(c.val, S_Phase2, Len(c.val.items)),
                                CountLabel(c.val, S_LLM, Len(c.val.items))>>]

\* a handler for json.JSONDecodeError alone
ExceptDecodeErrorOnly(exc) == IF exc = "JSONDecodeError" THEN "none" ELSE exc

\* "except Exception as e": what still propagates when exc leaves the try
ExceptException(exc) == "none"

NoSources == [chart |-> FALSE, counts |-> <<>>, warning |-> FALSE]

\* the bar chart of the three counts, or the warning of the except branch
Sources(df) ==
    IF df = <<>> THEN NoSources
    ELSE LET b == SourcesTry(df[1])
         IN  IF b.exc = "none"
             THEN [chart |-> TRUE, counts |-> b.counts, warning |-> FALSE]
             ELSE [chart |-> FALSE, counts |-> <<>>,
                   warning |-> ExceptException(b.exc) = "none"]

AnalyticsRaises(df) ==
    IF df = <<>> THEN "none" ELSE ExceptException(SourcesTry(df[1]).exc)

-----------------------------------------------------------------------------
(* The rows load_gwas_traits can return.  The warehouse is read-only for   *)
(* the app, so a row is chosen once, in Init.                              *)

MaxQuotes == 2       \* quote characters wrapped around a value, per side
MaxCitations == 2    \* entries of a generated field_citations object

QuoteRuns == UNION {[1..n -> {DQ, SQ}] : n \in 0..MaxQuotes}

S_Ht == <<"H","t">>

\* values tried under every wrapping of up to MaxQuotes quotes per side
WrappedCores == {<<>>, S_NOT_FOUND, S_Ht}

\* values tried bare and inside one pair of double or single quotes
PlainCores ==
    {S_NOT_FOUND_SPACE, S_Not_in_paper, S_None, S_NULL,
     <<"n","o","t","_","f","o","u","n","d">>,
     <<"N","o","t"," ","f","o","u","n","d">>,
     <<"n","u","l","l">>,
     <<"s","e","e"," ","N","O","T","_","F","O","U","N","D">>,
     <<"a",DQ,"b">>}

FieldStrings ==
    {l \o c \o r : l \in QuoteRuns, c \in WrappedCores, r \in QuoteRuns}
    \cup PlainCores
    \cup {<<q>> \o c \o <<q>> : q \in {DQ, SQ}, c \in PlainCores}

FieldValues == {None} \cup {Str(s) : s \in FieldStrings}

BaseValues == {Str(S_Ht), Str(S_NOT_FOUND)}

FieldNames == {trait_field_names[i] : i \in 1..Len(trait_field_names)}

FieldIndex(f) == CHOOSE i \in 1..Len(trait_field_names) : trait_field_names[i] = f

\* the first k columns hold v1, the others v2
SplitRecord(k, v1, v2) ==
    [f \in FieldNames |-> IF FieldIndex(f) <= k THEN v1 ELSE v2]

\* a record from which the column f is absent
WithoutKey(rec, f) == [g \in (DOMAIN rec) \ {f} |-> rec[g]]

\* how many leading columns take the varied value: none, the first, about
\* half, up to and including EVIDENCE_TYPE (which has no card), all
SplitPoints == {0, 1, 7, 12, Len(trait_field_names)}

FieldRecords ==
    {SplitRecord(k, v1, v2) :
        k \in SplitPoints, v1 \in FieldValues, v2 \in BaseValues}
    \cup {WithoutKey(SplitRecord(0, v, v), f) : v \in BaseValues, f \in FieldNames}

\* EXTRACTION_ACCURACY_PCT as the pipeline stored it, in tenths of a percent
ServerPcts == {500, 1000}

CitationKeys == << <<"g","e","n","e">>, <<"t","r","a","i","t">>,
                   <<"a","l","l","e","l","e">>, <<"s","n","p">>,
                   <<"c","h","r">> >>

\* JSON texts of provenance values
ProvTexts ==
    {<<DQ,"P","h","a","s","e","1"," ","e","x","t","r","a","c","t","i","o","n",DQ>>,
     <<DQ,"P","h","a","s","e","1","/","P","h","a","s","e","2"," ","c","o","n","s","e","n","s","u","s",DQ>>,
     <<DQ,"L","L","M",DQ>>,
     <<DQ,"p","h","a","s","e","1"," ","l","l","m",DQ>>,
     <<"[",DQ,"P","h","a","s","e","2",DQ,","," ",DQ,"L","L","M",DQ,"]">>,
     <<"n","u","l","l">>}

\* the text of an object whose i-th member is CitationKeys[i]: vals[i]
RECURSIVE MemberTexts(_, _)
MemberTexts(vals, n) ==
    IF n = 0 THEN <<>>
    ELSE Append(MemberTexts(vals, n - 1),
                <<DQ>> \o CitationKeys[n] \o <<DQ, ":">> \o vals[n])

ObjectText(vals) ==
    <<"{">> \o PyJoin(<<",">>, MemberTexts(vals, Len(vals))) \o <<"}">>

\* payloads that are not such objects
OddPayloads ==
    {<<>>,
     <<"{","n","o","t"," ","v","a","l","i","d">>,
     <<"{",DQ,"a",DQ,":",DQ,"P","h","a","s","e","1",DQ,",","}">>,
     <<"[",DQ,"P","h","a","s","e","1",DQ,"]">>,
     <<DQ,"P","h","a","s","e","1"," ","L","L","M",DQ>>,
     <<"5">>,
     <<"n","u","l","l">>,
     <<"{",DQ,"g","e","n","e",DQ,":",DQ,"P","h","a","s","e","1",DQ,",",DQ,"g","e","n","e",DQ,":",DQ,"P","h","a","s","e","2",DQ,"}">>,
     <<"{",DQ,"g","e","n","e",DQ,":","{",DQ,"s","r","c",DQ,":",DQ,"P","h","a","s","e","1"," ","L","L","M",DQ,"}","}">>,
     <<" ","{",DQ,"g","e","n","e",DQ," ",":"," ",DQ,"P","h","a","s","e","1",DQ," ","}"," ">>,
     <<"{",DQ,"g","e","n","e",DQ,":",DQ,"P","h","a","s","e","1",DQ,"}"," ","L","L","M">>}

Payloads ==
    {None}
    \cup {Str(s) : s \in OddPayloads}
    \cup {Str(ObjectText(vals)) :
            vals \in UNION {[1..n -> ProvTexts] : n \in 0..MaxCitations}}

Row(rec, citations, pct) ==
    [cols |-> [k \in (DOMAIN rec) \cup {"FIELD_CITATIONS"} |->
                  IF k = "FIELD_CITATIONS" THEN citations ELSE rec[k]],
     EXTRACTION_ACCURACY_PCT |-> pct]

\* the trait columns and the citations column are read by separate code, so
\* the rows vary one of the two at a time
TraitsRows ==
    {Row(rec, None, 500) : rec \in FieldRecords}
    \cup {Row(SplitRecord(0, Str(S_Ht), Str(S_Ht)), c, pct) :
            c \in Payloads, pct \in ServerPcts}

TraitsTables == {<<>>} \cup {<<row>> : row \in TraitsRows}

-----------------------------------------------------------------------------
(* Document selector (render_document_selector) *)

DocIds == {"d1", "d2", "d3"}

Range(s) == {s[i] : i \in 1..Len(s)}

\* the lists load_documents can return: DocIds in any order, none repeated
DocLists ==
    {docs \in UNION {[1..n -> DocIds] : n \in 0..Cardinality(DocIds)} :
        \A i, j \in 1..Len(docs) : docs[i] = docs[j] => i = j}

\* position of the stored id among the options, else the first option
current_index(docs, stored) ==
    IF stored \in Range(docs)
    THEN CHOOSE i \in 1..Len(docs) : docs[i] = stored
    ELSE 1

\* st.selectbox: the option the user picked if it is still offered, else
\* the option at `index`
Selectbox(options, index, pick) ==
    IF pick \in Range(options) THEN pick ELSE options[index]

\* a selector that writes session state only when it holds no id yet or
\* the user picks
SelectedDocKeepsStored(docs, stored, pick) ==
    IF stored = "unset" THEN docs[1]
    ELSE IF pick \in Range(docs) THEN pick
    ELSE stored

\* selected_doc_id after the selector ran on a non-empty list; an option's
\* label stands for its DOCUMENT_ID
SelectedDoc(docs, stored, pick) ==
    LET initialised == IF stored = "unset" THEN docs[1] ELSE stored
    IN  Selectbox(docs, current_index(docs, initialised), pick)

-----------------------------------------------------------------------------
(* Ask Questions (page_chatbot) *)

MaxQuestions == 2    \* questions asked before Clear Chat History
MaxResults == 2      \* rows returned by the search (Context Pages slider)

\* result['PAGE_NUMBER'] of a row whose page_number is NULL
NullPage == -1
\* page_num 'Unknown'
Unknown == -2

\* page_number::INT of the rows the search returns
PageNumbers == {NullPage, 0, 1, 2}

SearchResults == UNION {[1..n -> PageNumbers] : n \in 0..MaxResults}

\* what the three warehouse calls of one question do
Outcomes ==
    {[embed |-> e, search_raises |-> FALSE, results |-> <<>>, llm |-> "row"] :
        e \in {"raise", "empty"}}
    \cup {[embed |-> "row", search_raises |-> TRUE, results |-> <<>>, llm |-> "row"]}
    \cup {[embed |-> "row", search_raises |-> FALSE, results |-> r, llm |-> l] :
            r \in SearchResults, l \in {"row", "empty", "raise"}}

S_question == "What is the main finding of this study?"
S_response == "response"
S_sorry == "Sorry, I couldn't generate a response."

\* page_num: a NULL or zero page number is falsy
PageNum(page_number) ==
    IF page_number = NullPage \/ page_number = 0 THEN Unknown ELSE page_number

\* page_refs after the first n results
RECURSIVE PageRefs(_, _)
PageRefs(search_results, n) ==
    IF n = 0 THEN <<>>
    ELSE LET page_refs == PageRefs(search_results, n - 1)
             page_num == PageNum(search_results[n])
         IN  IF page_num \notin Range(page_refs) /\ page_num # Unknown
             THEN Append(page_refs, page_num)
             ELSE page_refs

\* sorted(xs)
RECURSIVE PySorted(_)
PySorted(xs) ==
    IF xs = <<>> THEN <<>>
    ELSE LET m == CHOOSE i \in 1..Len(xs) : \A j \in 1..Len(xs) : xs[i] <= xs[j]
         IN  <<xs[m]>> \o PySorted(SubSeq(xs, 1, m - 1) \o SubSeq(xs, m + 1, Len(xs)))

\* [f"Page {p}" for p in ps], each label as the pair "Page ", str(p)
RECURSIVE PageLabels(_)
PageLabels(ps) ==
    IF ps = <<>> THEN <<>>
    ELSE <<"Page " \o ToString(ps[1])>> \o PageLabels(Tail(ps))

\* ", ".join(labels)
RECURSIVE JoinLabels(_)
JoinLabels(labels) ==
    IF labels = <<>> THEN <<>>
    ELSE IF Len(labels) = 1 THEN labels
    ELSE <<labels[1], ", ">> \o JoinLabels(Tail(labels))

\* response_with_refs, as the sequence of its pieces
ResponseWithRefs(response, page_refs) ==
    IF page_refs # <<>>
    THEN <<response, "\n\n**Sources:** ">> \o JoinLabels(PageLabels(PySorted(page_refs)))
    ELSE <<response>>

\* error_msg
ErrorMsg(exc) == <<"Error: ", exc>>

Message(role, content) == [role |-> role, content |-> content]

\* the try body: the calls made, the exception that left it ("none" if it
\* ran to its end) and the answer it built
TryBody(o) ==
    IF o.embed = "raise"
    THEN [calls |-> <<"AI_EMBED">>, exc |-> "SnowparkSQLException",
          page_refs |-> <<>>, content |-> <<>>]
    ELSE IF o.embed = "empty"
    THEN [calls |-> <<"AI_EMBED">>, exc |-> "IndexError",
          page_refs |-> <<>>, content |-> <<>>]
    ELSE IF o.search_raises
    THEN [calls |-> <<"AI_EMBED", "SEARCH_PREVIEW">>,
          exc |-> "SnowparkSQLException", page_refs |-> <<>>, content |-> <<>>]
    ELSE LET page_refs == PageRefs(o.results, Len(o.results)) IN
         IF o.llm = "raise"
         THEN [calls |-> <<"AI_EMBED", "SEARCH_PREVIEW", "COMPLETE">>,
               exc |-> "SnowparkSQLException", page_refs |-> page_refs,
               content |-> <<>>]
         ELSE LET response == IF o.llm = "row" THEN S_response ELSE S_sorry
              IN  [calls |-> <<"AI_EMBED", "SEARCH_PREVIEW", "COMPLETE">>,
                   exc |-> "none", page_refs |-> page_refs,
                   content |-> ResponseWithRefs(response, page_refs)]

\* a handler that lets the exception go on
ChatExceptReraises(exc) == exc

\* "except Exception as e": what still propagates
ChatExcept(exc) == "none"

\* a handler that shows the error without recording it
AppendOnErrorNothing(exc) == <<>>

\* the messages the except branch appends
AppendOnError(exc) == <<Message("assistant", ErrorMsg(exc))>>

NoChatRun == [event |-> "none", calls |-> <<>>, exc |-> "none",
              shown |-> "none", search_results |-> <<>>,
              appended |-> <<>>, propagated |-> "none"]

\* the chat input block for one submitted question
ChatRun(o) ==
    LET t == TryBody(o)
        user == Message("user", <<S_question>>)
    IN  IF t.exc = "none"
        THEN [event |-> "question", calls |-> t.calls, exc |-> "none",
              shown |-> "markdown", search_results |-> o.results,
              appended |-> <<user, Message("assistant", t.content)>>,
              propagated |-> "none"]
        ELSE IF ChatExcept(t.exc) = "none"
        THEN [event |-> "question", calls |-> t.calls, exc |-> t.exc,
              shown |-> "error", search_results |-> o.results,
              appended |-> <<user>> \o AppendOnError(t.exc),
              propagated |-> "none"]
        ELSE [event |-> "question", calls |-> t.calls, exc |-> t.exc,
              shown |-> "none", search_results |-> o.results,
              appended |-> <<user>>,
              propagated |-> ChatExcept(t.exc)]

-----------------------------------------------------------------------------
(* Reruns of main() *)

Pages == {"Extracted Traits", "Page Browser", "Analytics Dashboard",
          "Raw Data", "Ask Questions"}

\* a radio that is always drawn with index 0
RadioIndexZero(stored, pick) ==
    IF pick # "keep" THEN pick ELSE "Extracted Traits"

\* the page the navigation radio returns: the entry the user picked, else
\* the entry at the index of the stored page (Extracted Traits on the
\* first rerun)
RadioValue(stored, pick) ==
    IF pick # "keep" THEN pick
    ELSE IF stored = "unset" THEN "Extracted Traits" ELSE stored

\* what causes a rerun: the widget the user touched and the value given
NoOutcome == [embed |-> "row", search_raises |-> FALSE, results |-> <<>>,
              llm |-> "row"]

Cause(event, pick, doc_pick, o) ==
    [event |-> event, pick |-> pick, doc_pick |-> doc_pick, o |-> o]

\* the session opens, or the user picks an entry of the navigation radio
NavCauses ==
    {Cause("start", "keep", "keep", NoOutcome)}
    \cup {Cause("navigate", page, "keep", NoOutcome) : page \in Pages}

\* the user picks a document, or presses the sidebar's Download PDF button
\* (which changes nothing that is modelled)
DocCauses ==
    {Cause("select_document", "keep", d, NoOutcome) : d \in DocIds}
    \cup {Cause("download", "keep", "keep", NoOutcome)}

\* the user submits a question, or presses Clear Chat History
ChatCauses ==
    {Cause("question", "keep", "keep", o) : o \in Outcomes}
    \cup {Cause("clear", "keep", "keep", NoOutcome)}

\* the widget was on the screen and the interaction changes its value
Caused(c) ==
    CASE c.event = "start" -> current_page = "unset"
      [] c.event = "navigate" -> current_page \notin {"unset", c.pick}
      [] c.event = "select_document" ->
            /\ current_page # "unset"
            /\ c.doc_pick \in Range(documents)
            /\ c.doc_pick # selected_doc_id
      [] c.event = "download" -> current_page # "unset" /\ documents # <<>>
      [] c.event = "question" ->
            /\ page_ran = "Ask Questions"
            /\ Len(chat_messages) < 2 * MaxQuestions
      [] c.event = "clear" -> page_ran = "Ask Questions"

InitSession ==
    /\ current_page = "unset"
    /\ quick_stats = NoStats
    /\ traits_stats = NoStats
    /\ cards = <<>>
    /\ summary = NoSummary
    /\ sources = NoSources
    /\ raised = "none"
    /\ selected_doc_id = "unset"
    /\ chat_messages = <<>>
    /\ chat_run = NoChatRun
    /\ page_ran = "none"
    /\ last_event = "none"

\* the list load_documents returns while the warehouse holds one document
OneDocument == {<<"d1">>}

\* one document whose trait table is any of TraitsTables
Init ==
    /\ traits_df \in TraitsTables
    /\ documents \in OneDocument
    /\ InitSession

SidebarOk == QuickStatsRaises(traits_df) = "none"

\* the page function is reached: the selector did not stop the script and
\* the sidebar did not raise
PageRuns(docs) == docs # <<>> /\ SidebarOk

\* what the rerun raises before the page function is reached
RaisedBeforePage(docs) ==
    IF docs = <<>> THEN "none" ELSE QuickStatsRaises(traits_df)

\* main() up to the page call, in a rerun whose radio returns `page`: the
\* selector loads `docs` and either stops the script or settles
\* selected_doc_id and draws the sidebar
Main(c, docs, page) ==
    /\ Caused(c)
    /\ RadioValue(current_page, c.pick) = page
    /\ current_page' = page
    /\ documents' = docs
    /\ last_event' = c.event
    /\ selected_doc_id' = IF docs = <<>> THEN selected_doc_id
                          ELSE SelectedDoc(docs, selected_doc_id, c.doc_pick)
    /\ quick_stats' = IF docs = <<>> THEN NoStats ELSE QuickStats(traits_df)
    /\ page_ran' = IF PageRuns(docs) THEN page ELSE "none"
    /\ UNCHANGED traits_df

\* the rerun does not reach the chat input block
NoChat == chat_run' = NoChatRun /\ UNCHANGED chat_messages

PageExtractedTraits(c, docs) ==
    /\ Main(c, docs, "Extracted Traits")
    /\ traits_stats' = IF PageRuns(docs) THEN TraitsStats(traits_df) ELSE NoStats
    /\ cards' = IF PageRuns(docs) THEN Cards(traits_df) ELSE <<>>
    /\ summary' = NoSummary
    /\ sources' = NoSources
    /\ raised' = IF PageRuns(docs) THEN TraitsPageRaises(traits_df)
                 ELSE RaisedBeforePage(docs)
    /\ NoChat

PageAnalytics(c, docs) ==
    /\ Main(c, docs, "Analytics Dashboard")
    /\ traits_stats' = NoStats
    /\ cards' = <<>>
    /\ summary' = IF PageRuns(docs) THEN Summary(traits_df) ELSE NoSummary
    /\ sources' = IF PageRuns(docs) THEN Sources(traits_df) ELSE NoSources
    /\ raised' = IF PageRuns(docs) THEN AnalyticsRaises(traits_df)
                 ELSE RaisedBeforePage(docs)
    /\ NoChat

\* the pages that draw no trait statistics of their own
NoTraitOutput ==
    /\ traits_stats' = NoStats
    /\ cards' = <<>>
    /\ summary' = NoSummary
    /\ sources' = NoSources

PageBrowser(c, docs) ==
    /\ Main(c, docs, "Page Browser")
    /\ NoTraitOutput
    /\ raised' = RaisedBeforePage(docs)
    /\ NoChat

PageRawData(c, docs) ==
    /\ Main(c, docs, "Raw Data")
    /\ NoTraitOutput
    /\ raised' = RaisedBeforePage(docs)
    /\ NoChat

\* Ask Questions: Clear Chat History empties the history and st.rerun()
\* draws the page again; a submitted question runs the chat input block
PageChatbot(c, docs) ==
    /\ Main(c, docs, "Ask Questions")
    /\ NoTraitOutput
    /\ IF ~PageRuns(docs)
       THEN /\ NoChat
            /\ raised' = RaisedBeforePage(docs)
       ELSE IF c.event = "clear"
       THEN /\ chat_run' = [NoChatRun EXCEPT !.event = "clear"]
            /\ chat_messages' = <<>>
            /\ raised' = "none"
       ELSE IF c.event = "question"
       THEN /\ chat_run' = ChatRun(c.o)
            /\ chat_messages' = chat_messages \o ChatRun(c.o).appended
            /\ raised' = ChatRun(c.o).propagated
       ELSE /\ NoChat
            /\ raised' = "none"

\* the reruns of one session, its causes drawn from C and the document
\* lists it loads from D
Reruns(C, D) ==
    \E c \in C, docs \in D :
        \/ PageExtractedTraits(c, docs)
        \/ PageBrowser(c, docs)
        \/ PageAnalytics(c, docs)
        \/ PageRawData(c, docs)
        \/ PageChatbot(c, docs)

Next == Reruns(NavCauses, OneDocument)

Spec == Init /\ [][Next]_vars

\* the document list changes between reruns; no trait table is loaded
InitDocs ==
    /\ traits_df = <<>>
    /\ documents = <<>>
    /\ InitSession

NextDocs == Reruns(NavCauses \cup DocCauses, DocLists)

SpecDocs == InitDocs /\ [][NextDocs]_vars

\* one document, no trait table; the user navigates and chats
InitChat ==
    /\ traits_df = <<>>
    /\ documents \in OneDocument
    /\ InitSession

NextChat == Reruns(NavCauses \cup ChatCauses, OneDocument)

SpecChat == InitChat /\ [][NextChat]_vars

-----------------------------------------------------------------------------
(* Vocabulary of the properties, stated without the scorers' operators *)

\* w occurs in s as a contiguous run
Occurs(w, s) ==
    \E i \in 1..(Len(s) + 1) : \E j \in (i - 1)..Len(s) : SubSeq(s, i, j) = w

IsQuote(c) == c \in {DQ, SQ}

\* s without one leading and one trailing quote character, if present
TrimOneLayer(s) ==
    LET a == IF Len(s) > 0 /\ IsQuote(s[1]) THEN 2 ELSE 1
        b == IF Len(s) >= a /\ IsQuote(s[Len(s)]) THEN Len(s) - 1 ELSE Len(s)
    IN  SubSeq(s, a, b)

\* s from its first to its last character that is not a quote
TrimAllQuotes(s) ==
    LET inner == {i \in 1..Len(s) : ~IsQuote(s[i])}
    IN  IF inner = {} THEN <<>>
        ELSE SubSeq(s, CHOOSE i \in inner : \A j \in inner : i <= j,
                       CHOOSE i \in inner : \A j \in inner : i >= j)

\* an absence marker, compared case-insensitively
IsSentinel(s) ==
    LET u == PyUpper(s)
    IN  \/ u = <<>>
        \/ u = <<"N","O","N","E">>
        \/ u = <<"N","U","L","L">>
        \/ u = <<"N","O","T"," ","I","N"," ","P","A","P","E","R">>
        \/ Occurs(<<"N","O","T","_","F","O","U","N","D">>, u)
        \/ Occurs(<<"N","O","T"," ","F","O","U","N","D">>, u)

\* the classification the specification gives for a field value
SpecNotFound(value) ==
    value.isnone \/ value.str = <<>> \/ IsSentinel(TrimOneLayer(value.str))

TheRow == traits_df[1]
Present == FieldNames \cap DOMAIN TheRow.cols
Absent == FieldNames \ DOMAIN TheRow.cols
Citations == TheRow.cols["FIELD_CITATIONS"]

SpecFoundCount ==
    Cardinality({f \in FieldNames : ~SpecNotFound(SeriesGet(TheRow.cols, f))})

OnTraitsPage == traits_df # <<>> /\ current_page = "Extracted Traits"
OnAnalytics == traits_df # <<>> /\ current_page = "Analytics Dashboard"

\* a (tenths of a percent) is 100 * n / d rounded to one decimal
IsPct(a, n, d) == d > 0 /\ 2 * (a * d - 1000 * n) <= d /\ 2 * (1000 * n - a * d) <= d

-----------------------------------------------------------------------------
(* C1: at each place that shows a found count (sidebar Quick Stats,        *)
(* Extracted Traits page, Analytics page) a field is counted as not-found  *)
(* exactly when its quote-trimmed value is, case-insensitively, empty,     *)
(* "none", "null", "not in paper", or contains "not_found" or "not found". *)
C1_NotFoundExactlyOnSentinels ==
    traits_df # <<>> =>
        /\ quick_stats.shown => quick_stats.actual_found = SpecFoundCount
        /\ traits_stats.shown => traits_stats.actual_found = SpecFoundCount
        /\ summary.shown => summary.extracted = SpecFoundCount

BadCitations ==
    /\ Truthy(Citations)
    /\ ~json_loads(Citations.str).ok \/ json_loads(Citations.str).val.t # "dict"

S_not_valid == <<"{","n","o","t"," ","v","a","l","i","d">>

(* C3 as stated: for a citations payload that is not valid JSON, or is     *)
(* valid JSON but not an object, the tally shows zero for Phase1, Phase2   *)
(* and LLM and no exception reaches the caller.                            *)
C3_BadCitationsTallyZero ==
    (OnAnalytics /\ BadCitations) =>
        sources.chart /\ sources.counts = <<0, 0, 0>> /\ raised = "none"

(* C3 as amended: for such a payload the Analytics page draws no source    *)
(* chart and no counts, shows the "Could not parse citation data" warning  *)
(* instead, and no exception reaches the caller; the Extracted Traits page *)
(* raises nothing for it either.                                           *)
C3_BadCitationsWarnNoTally ==
    /\ (OnAnalytics /\ BadCitations) =>
          /\ ~sources.chart
          /\ sources.counts = <<>>
          /\ sources.warning
          /\ raised = "none"
    /\ (OnTraitsPage /\ BadCitations) => raised = "none"

C3_Witness ==
    /\ OnAnalytics
    /\ Citations = Str(S_not_valid)
    /\ sources.warning

(* C4: every accuracy percentage shown for a trait record (sidebar,        *)
(* Extracted Traits page, Analytics page) is 100 * found / total as        *)
(* recomputed from the record's fields, not the stored                     *)
(* EXTRACTION_ACCURACY_PCT.                                                *)
C4_ShownAccuracyIsRecomputed ==
    /\ quick_stats.shown =>
          IsPct(quick_stats.accuracy, quick_stats.actual_found,
                Len(trait_field_names))
    /\ traits_stats.shown =>
          IsPct(traits_stats.accuracy, traits_stats.actual_found,
                Len(trait_field_names))
    /\ summary.shown =>
          IsPct(summary.accuracy, summary.extracted, Len(trait_field_names))

\* the column value behind the i-th card
CardSource(i) == TheRow.cols[cards[i].field].str

(* C5 as stated: the value a Found card shows is the column value with at  *)
(* most one leading and one trailing quote character removed.              *)
C5_OneQuoteLayerTrimmed ==
    OnTraitsPage =>
        \A i \in 1..Len(cards) :
            cards[i].found => cards[i].value = TrimOneLayer(CardSource(i))

\* t is v[i..j], what was cut in front is double quotes then single quotes,
\* what was cut behind is single quotes then double quotes, no single quote
\* is left at either end, and a double quote is left at an end only behind
\* a removed single quote
StrippedAt(v, t, i, j) ==
    /\ t = SubSeq(v, i, j)
    /\ \E m \in 0..(i - 1) :
          /\ \A k \in 1..m : v[k] = DQ
          /\ \A k \in (m + 1)..(i - 1) : v[k] = SQ
    /\ \E m \in j..Len(v) :
          /\ \A k \in (j + 1)..m : v[k] = SQ
          /\ \A k \in (m + 1)..Len(v) : v[k] = DQ
    /\ v[i] # SQ /\ v[j] # SQ
    /\ (i = 1 \/ v[i - 1] = DQ) => v[i] # DQ
    /\ (j = Len(v) \/ v[j + 1] = DQ) => v[j] # DQ

(* C5 as amended: the scorer removes every leading and trailing double     *)
(* quote and then every leading and trailing single quote; quote           *)
(* characters left after that (inside the value, or a double quote that    *)
(* sat behind a single quote) are kept.                                    *)
C5_OuterQuotesStripped ==
    OnTraitsPage =>
        \A n \in 1..Len(cards) :
            cards[n].found =>
                \E i \in 1..Len(CardSource(n)) : \E j \in i..Len(CardSource(n)) :
                    StrippedAt(CardSource(n), cards[n].value, i, j)

C5_Witness ==
    /\ OnTraitsPage
    /\ Len(cards) > 0
    /\ cards[1].found
    /\ CardSource(1) = <<DQ, DQ, "H", "t", DQ, DQ>>
    /\ cards[1].value = S_Ht

\* every fixed field holds a non-empty string that is no absence marker
AllFieldsReal ==
    /\ Absent = {}
    /\ \A f \in FieldNames :
          ~TheRow.cols[f].isnone /\ ~SpecNotFound(TheRow.cols[f])

\* ... and that string is still non-empty, and no absence marker, once all
\* of its leading and trailing quote characters are stripped
AllFieldsRealStripped ==
    /\ AllFieldsReal
    /\ \A f \in FieldNames : ~IsSentinel(TrimAllQuotes(TheRow.cols[f].str))

(* C6 as stated: when every fixed field holds a non-empty string that is   *)
(* not an absence marker, found_count = total and accuracy = 100.0.        *)
C6_AllRealFieldsScoreFull ==
    (OnTraitsPage /\ AllFieldsReal) =>
        /\ traits_stats.shown
        /\ traits_stats.actual_found = traits_stats.total_traits
        /\ traits_stats.accuracy = 1000

(* C6 as amended: when every fixed field holds a string that is not an     *)
(* absence marker and is still non-empty and no absence marker after all   *)
(* of its leading and trailing quote characters are stripped,              *)
(* found_count = total = 15 and accuracy = 100.0.                          *)
C6_AllStrippedRealFieldsScoreFull ==
    (OnTraitsPage /\ AllFieldsRealStripped) =>
        /\ traits_stats.shown
        /\ traits_stats.actual_found = Len(trait_field_names)
        /\ traits_stats.total_traits = Len(trait_field_names)
        /\ traits_stats.accuracy = 1000

C6_Witness ==
    /\ OnTraitsPage
    /\ AllFieldsRealStripped
    /\ TheRow.cols["TRAIT"] = Str(<<SQ, DQ, "H", "t", DQ, SQ>>)
    /\ traits_stats.actual_found = 15

ParsedCitations ==
    IF Truthy(Citations) THEN json_loads(Citations.str).val ELSE EmptyDict

S_example ==
    <<"{",DQ,"g","e","n","e",DQ,":",DQ,"P","h","a","s","e","1"," ","e","x","t","r","a","c","t","i","o","n",DQ,",",
      DQ,"t","r","a","i","t",DQ,":",DQ,"P","h","a","s","e","1","/","P","h","a","s","e","2"," ","c","o","n","s","e","n","s","u","s",DQ,"}">>

(* C8: each of the counts for Phase1, Phase2 and LLM is the number of      *)
(* values of the parsed citations object whose string form contains that   *)
(* label, case-sensitively; a value holding several labels counts under    *)
(* each of them.                                                           *)
C8_TallyCountsEachLabel ==
    (OnAnalytics /\ sources.chart) =>
        /\ \A l \in 1..3 :
              sources.counts[l] =
                  Cardinality({n \in 1..Len(ParsedCitations.items) :
                      Occurs(<< <<"P","h","a","s","e","1">>,
                                <<"P","h","a","s","e","2">>,
                                <<"L","L","M">> >>[l],
                             PyStr(ParsedCitations.items[n]))})
        /\ Citations = Str(S_example) => sources.counts = <<2, 1, 0>>

C8_Witness ==
    /\ OnAnalytics
    /\ sources.chart
    /\ Len(ParsedCitations.items) = 1
    /\ sources.counts = <<1, 1, 0>>

(* C9: for a citations payload that is null or the empty string the tally  *)
(* is drawn with zero for Phase1, Phase2 and LLM, and nothing is raised.   *)
C9_NoCitationsTallyZero ==
    (OnAnalytics /\ (Citations = None \/ Citations = Str(<<>>))) =>
        /\ sources.chart
        /\ sources.counts = <<0, 0, 0>>
        /\ ~sources.warning
        /\ raised = "none"

C9_Witness ==
    /\ OnAnalytics
    /\ Citations = Str(<<>>)
    /\ sources.chart

\* NOT_FOUND bare, in double quotes, in single quotes
NotFoundForms ==
    {S_NOT_FOUND, <<DQ>> \o S_NOT_FOUND \o <<DQ>>, <<SQ>> \o S_NOT_FOUND \o <<SQ>>}

NotCountable ==
    {f \in Present : ~TheRow.cols[f].isnone /\ TheRow.cols[f].str \in NotFoundForms}

(* C10: a field holding NOT_FOUND, "NOT_FOUND" in double quotes or         *)
(* 'NOT_FOUND' in single quotes is not counted as found at any scoring     *)
(* site, so the three forms classify alike.                                *)
C10_QuotedSentinelNotCounted ==
    traits_df # <<>> =>
        LET most == Len(trait_field_names) - Cardinality(NotCountable)
        IN  /\ quick_stats.shown => quick_stats.actual_found <= most
            /\ traits_stats.shown => traits_stats.actual_found <= most
            /\ summary.shown => summary.extracted <= most

C10_Witness ==
    /\ OnTraitsPage
    /\ Absent = {}
    /\ TheRow.cols["TRAIT"] = Str(<<SQ>> \o S_NOT_FOUND \o <<SQ>>)
    /\ traits_stats.shown
    /\ traits_stats.actual_found = 14
    /\ quick_stats.actual_found = 14

-----------------------------------------------------------------------------
\* every fixed column is present and holds exactly NOT_FOUND
AllNotFound ==
    /\ traits_df # <<>>
    /\ Absent = {}
    /\ \A f \in FieldNames : TheRow.cols[f] = Str(S_NOT_FOUND)

(* C11: for a record in which every fixed field holds NOT_FOUND, the       *)
(* Extracted Traits scorer returns a found count of 0 and an accuracy of   *)
(* 0.0 percent.                                                            *)
C11_AllNotFoundScoresZero ==
    (OnTraitsPage /\ AllNotFound) =>
        /\ traits_stats.shown
        /\ traits_stats.actual_found = 0
        /\ traits_stats.accuracy = 0

C11_Witness ==
    /\ OnTraitsPage
    /\ AllNotFound
    /\ traits_stats.shown
    /\ traits_stats.total_traits = Len(trait_field_names)

\* the Extracted Traits page drew its whole card section
CardsDrawn == OnTraitsPage /\ raised = "none" /\ traits_stats.shown

(* C14: on the Extracted Traits page every card is drawn Found exactly     *)
(* when the page's scorer counted the card's field as found, and Not Found *)
(* exactly when the scorer counted it as not found.                        *)
C14_CardsFollowScorer ==
    CardsDrawn =>
        \A i \in 1..Len(cards) :
            cards[i].found <=> PageIsValid(TheRow.cols[cards[i].field])

(* C15: for one trait record the sidebar Quick Stats, the Extracted Traits *)
(* page and the Analytics page all compute the same found count.           *)
C15_ThreeSitesSameCount ==
    /\ (quick_stats.shown /\ traits_stats.shown) =>
            quick_stats.actual_found = traits_stats.actual_found
    /\ (quick_stats.shown /\ summary.shown) =>
            quick_stats.actual_found = summary.extracted

CardFields == {cards[i].field : i \in 1..Len(cards)}
FoundCards == {i \in 1..Len(cards) : cards[i].found}

\* card and scorer classify every card field alike
ClassificationAgrees ==
    \A i \in 1..Len(cards) :
        cards[i].found <=> PageIsValid(SeriesGet(TheRow.cols, cards[i].field))

(* C18 as stated: the fields counted toward Traits Found are the fields    *)
(* drawn as cards, so the number of Found cards equals the displayed found *)
(* count whenever the per-field classification agrees.                     *)
C18_ScoredFieldsAreCardFields ==
    CardsDrawn =>
        /\ CardFields = FieldNames
        /\ ClassificationAgrees =>
               Cardinality(FoundCards) = traits_stats.actual_found

(* C18 amended: every card's field is scored and every scored field but    *)
(* EVIDENCE_TYPE has exactly one card; when the per-field classification   *)
(* agrees, the displayed found count is the number of Found cards plus one *)
(* if EVIDENCE_TYPE was counted.                                           *)
C18_CardFieldsAreScoredButEvidenceType ==
    CardsDrawn =>
        /\ CardFields = FieldNames \ {"EVIDENCE_TYPE"}
        /\ Len(cards) = Cardinality(CardFields)
        /\ ClassificationAgrees =>
               traits_stats.actual_found
                  = Cardinality(FoundCards)
                    + (IF PageIsValid(TheRow.cols["EVIDENCE_TYPE"])
                       THEN 1 ELSE 0)

C18_Witness ==
    /\ CardsDrawn
    /\ ClassificationAgrees
    /\ PageIsValid(TheRow.cols["EVIDENCE_TYPE"])
    /\ Cardinality(FoundCards) = Len(cards)
    /\ traits_stats.actual_found = Len(cards) + 1

(* C20: at every scoring site the found count lies between 0 and 15; where *)
(* a not-reported count is shown (Extracted Traits banner, Analytics       *)
(* chart) it equals 15 minus the found count; and each of the 15 fixed     *)
(* fields adds one to exactly one of the two counts.                       *)
C20_CountsPartitionFields ==
    /\ Len(trait_field_names) = 15
    /\ quick_stats.shown => quick_stats.actual_found \in 0..15
    /\ traits_stats.shown =>
          /\ traits_stats.actual_found \in 0..15
          /\ traits_stats.not_reported = 15 - traits_stats.actual_found
          /\ traits_stats.actual_found = Cardinality(
                {f \in FieldNames : PageIsValid(SeriesGet(TheRow.cols, f))})
          /\ traits_stats.not_reported = Cardinality(
                {f \in FieldNames : ~PageIsValid(SeriesGet(TheRow.cols, f))})
    /\ summary.shown =>
          /\ summary.extracted \in 0..15
          /\ summary.not_reported = 15 - summary.extracted
          /\ summary.extracted = Cardinality(
                {f \in FieldNames : AnalyticsCounts(SeriesGet(TheRow.cols, f)) = 1})
          /\ summary.not_reported = Cardinality(
                {f \in FieldNames : AnalyticsCounts(SeriesGet(TheRow.cols, f)) = 0})

C20_Witness ==
    /\ OnTraitsPage
    /\ traits_stats.shown
    /\ traits_stats.actual_found = 7
    /\ traits_stats.not_reported = 8

-----------------------------------------------------------------------------
OnChatPage == page_ran = "Ask Questions"
LastMessage == chat_messages[Len(chat_messages)]

(* C12: a rerun caused by submitting a chat question or by Clear Chat      *)
(* History leaves the current page unchanged, on Ask Questions; once a     *)
(* page is stored, it changes only in a rerun caused by picking another    *)
(* entry of the navigation radio.                                          *)
C12_ChatNeverNavigates ==
    [][/\ last_event' \in {"question", "clear"} =>
            current_page' = current_page /\ current_page' = "Ask Questions"
       /\ (current_page # "unset" /\ current_page' # current_page) =>
            last_event' = "navigate"]_vars

C12_Witness ==
    /\ last_event = "question"
    /\ current_page = "Ask Questions"
    /\ OnChatPage
    /\ Len(chat_messages) = 4

\* the last rerun handled a question and one of its calls failed
QuestionFailed == chat_run.event = "question" /\ chat_run.exc # "none"

(* C13: when the embedding, search or completion call of a question fails, *)
(* the exception does not leave the page; an inline error is shown, the    *)
(* history ends with the question followed by one assistant message that   *)
(* holds the error text, no call is made after the failing one and no      *)
(* answer is recorded.                                                     *)
C13_FailureIsCaughtAndRecorded ==
    QuestionFailed =>
        /\ raised = "none"
        /\ chat_run.shown = "error"
        /\ Len(chat_messages) >= 2
        /\ chat_messages[Len(chat_messages) - 1].role = "user"
        /\ LastMessage = [role |-> "assistant",
                          content |-> <<"Error: ", chat_run.exc>>]
        /\ Len(chat_run.appended) = 2
        /\ chat_run.calls \in {<<"AI_EMBED">>, <<"AI_EMBED", "SEARCH_PREVIEW">>,
                               <<"AI_EMBED", "SEARCH_PREVIEW", "COMPLETE">>}

C13_Witness ==
    /\ QuestionFailed
    /\ chat_run.calls = <<"AI_EMBED", "SEARCH_PREVIEW">>
    /\ chat_run.shown = "error"
    /\ LastMessage.role = "assistant"

\* user, assistant, user, assistant, ...
Alternates(messages) ==
    /\ Len(messages) % 2 = 0
    /\ \A i \in 1..Len(messages) :
          messages[i].role = IF i % 2 = 1 THEN "user" ELSE "assistant"

(* C16: the chat history always alternates user, assistant, ... starting   *)
(* with a user message and ending with an assistant message; a rerun that  *)
(* handles a question, answered or failed, appends exactly one user        *)
(* message followed by exactly one assistant message; a rerun that         *)
(* handles Clear Chat History leaves the history empty.                    *)
C16_HistoryAlternates ==
    /\ [](Alternates(chat_messages))
    /\ [](chat_run.event = "clear" => chat_messages = <<>>)
    /\ [][chat_run'.event = "question" =>
            /\ Len(chat_messages') = Len(chat_messages) + 2
            /\ SubSeq(chat_messages', 1, Len(chat_messages)) = chat_messages
            /\ chat_messages'[Len(chat_messages) + 1].role = "user"
            /\ chat_messages'[Len(chat_messages) + 2].role = "assistant"]_vars

C16_Witness ==
    /\ Len(chat_messages) = 4
    /\ chat_messages[2].content[1] = "Error: "
    /\ chat_messages[4].content[1] = S_response
    /\ chat_run.event = "question"

(* C17: whenever a page function has run, selected_doc_id is the id of a   *)
(* document in the list that rerun loaded; with an empty list no page      *)
(* function runs; a rerun that finds no stored id selects the first        *)
(* document; a rerun that finds a stored id missing from the list, and is  *)
(* not caused by the document selector, selects the first document.        *)
C17_SelectedDocIsLoaded ==
    /\ [](page_ran # "none" => selected_doc_id \in Range(documents))
    /\ [](documents = <<>> => page_ran = "none")
    /\ [][(selected_doc_id = "unset" /\ documents' # <<>>) =>
            selected_doc_id' = documents'[1]]_vars
    /\ [][(/\ selected_doc_id # "unset"
           /\ selected_doc_id \notin Range(documents')
           /\ documents' # <<>>
           /\ last_event' # "select_document") =>
            selected_doc_id' = documents'[1]]_vars

C17_Witness ==
    /\ page_ran # "none"
    /\ last_event = "select_document"
    /\ Len(documents) = 3
    /\ selected_doc_id = documents[3]

\* the page numbers the last search returned, NULLs left out
ReturnedPages == Range(chat_run.search_results) \ {NullPage}

\* the labels of the Sources line of an answer, in order (none when the
\* answer has no Sources line)
SourceLabels(content) ==
    [k \in 1..((Len(content) - 1) \div 2) |-> content[2 * k + 1]]

\* the k-th smallest element of a set of numbers
Kth(S, k) == CHOOSE x \in S : Cardinality({y \in S : y <= x}) = k

QuestionAnswered == chat_run.event = "question" /\ chat_run.exc = "none"

(* C19: the Sources line appended to an answer names each distinct page    *)
(* number the search returned exactly once, in ascending order, leaving    *)
(* out only the results whose page number is missing; when no result has   *)
(* a page number the answer carries no Sources line.                       *)
C19_SourcesNameEachPageOnce ==
    QuestionAnswered =>
        LET content == LastMessage.content
            labels == SourceLabels(content)
        IN  /\ Len(labels) = Cardinality(ReturnedPages)
            /\ \A k \in 1..Len(labels) :
                  labels[k] = "Page " \o ToString(Kth(ReturnedPages, k))
            /\ ReturnedPages = {} <=> Len(content) = 1

====
